---- MODULE Spec2Model ----
(***************************************************************************)
(* A model of two pieces of the marimo frontend:                           *)
(*                                                                         *)
(*  - resolveVegaSpecData (plugins/impl/vega/resolve-data.ts): the async   *)
(*    traversal of a Vega-Lite spec tree that fetches URL-backed datasets  *)
(*    and rewrites the tree to reference them by name;                     *)
(*  - LoadingDataEditor (plugins/impl/DataEditorPlugin.tsx): the loading   *)
(*    wrapper of the data editor and its onAddEdits / onAddRows callbacks. *)
(*                                                                         *)
(* JavaScript objects are TLA+ records (functions over strings) whose      *)
(* DOMAIN is the set of own keys, arrays are sequences.  One action is one *)
(* run-to-completion segment of JavaScript: from a call or the resumption  *)
(* of an await up to the next await of every frame it runs.                *)
(***************************************************************************)
EXTENDS Integers, Sequences, FiniteSets, TLC

\* Largest number of items (nodes, empty lists, null sub-specs, a datasets map at the
\* root) of an input tree.
MaxNodes == 3

----------------------------------------------------------------------------
(* JavaScript values *)

Null == [js |-> "null"]
Undefined == [js |-> "undefined"]

\* !v for the values a spec or a data field can take
Falsy(v) == v = Null \/ v = Undefined

\* obj[key], undefined when the key is absent
Get(obj, key) == IF key \in DOMAIN obj THEN obj[key] ELSE Undefined

\* { ...obj, [key]: val }
Spread(obj, key, val) ==
    [k \in DOMAIN obj \cup {key} |-> IF k = key THEN val ELSE obj[k]]

\* {}
EmptyObject == [k \in {} |-> Undefined]

----------------------------------------------------------------------------
(* URLs *)

NoUrl == [ok |-> FALSE, href |-> "", pathname |-> ""]

\* asRemoteURL: the URL object of a string, or a throw (ok = FALSE).
asRemoteURL(s) ==
    CASE s = "http://a/d1" -> [ok |-> TRUE, href |-> "http://a/d1", pathname |-> "/d1"]
      [] s = "http://b/d1" -> [ok |-> TRUE, href |-> "http://b/d1", pathname |-> "/d1"]
      [] s = "http://a/d2" -> [ok |-> TRUE, href |-> "http://a/d2", pathname |-> "/d2"]
      [] OTHER -> NoUrl

\* The values of a node's data field in the inputs.
DataValues ==
    { [name |-> "dataset"],
      [url |-> "http://["],
      [url |-> "http://a/d1", format |-> [type |-> "json"]],
      [url |-> "http://b/d1"],
      [url |-> "http://a/d2", format |-> [type |-> "csv"]] }

\* The values of the root's datasets field in the inputs.
DatasetsValues ==
    { EmptyObject,
      [k \in {"existing", "/d1"} |-> [href |-> "inline", call |-> 0]] }

----------------------------------------------------------------------------
(* The input spec trees *)

\* A node object from its optional fields (each <<>> when absent, <<v>> when present).
Node(d, L, H, V, S) ==
    [k \in (IF d = <<>> THEN {} ELSE {"data"})
           \cup (IF L = <<>> THEN {} ELSE {"layer"})
           \cup (IF H = <<>> THEN {} ELSE {"hconcat"})
           \cup (IF V = <<>> THEN {} ELSE {"vconcat"})
           \cup (IF S = <<>> THEN {} ELSE {"spec"}) |->
        CASE k = "data" -> d[1]
          [] k = "layer" -> L[1]
          [] k = "hconcat" -> H[1]
          [] k = "vconcat" -> V[1]
          [] k = "spec" -> S[1]]

\* The ways to split n items over the four composition keys.
Splits(n) == {s \in [1..4 -> 0..n] : s[1] + s[2] + s[3] + s[4] = n}

RECURSIVE NodesOfSize(_), ListsOfSize(_)

\* The lists of nodes that hold k nodes in all.
ListsOfSize(k) ==
    IF k = 0 THEN {<<>>}
    ELSE UNION {{<<n>> \o r : n \in NodesOfSize(j), r \in ListsOfSize(k - j)} : j \in 1..k}

\* A list-valued key worth a items: absent, an empty list (one item), or a list of nodes.
ListOpts(a) ==
    IF a = 0 THEN {<<>>}
    ELSE {<<l>> : l \in ListsOfSize(a)} \cup (IF a = 1 THEN {<< <<>> >>} ELSE {})

\* The spec key worth a items: absent, null (one item), or a node.
SpecOpts(a) ==
    IF a = 0 THEN {<<>>}
    ELSE {<<n>> : n \in NodesOfSize(a)} \cup (IF a = 1 THEN {<<Null>>} ELSE {})

\* The nodes whose subtree holds k items in all.
NodesOfSize(k) ==
    UNION {{Node(d, L, H, V, S) :
                d \in {<<>>} \cup {<<v>> : v \in DataValues},
                L \in ListOpts(s[1]), H \in ListOpts(s[2]),
                V \in ListOpts(s[3]), S \in SpecOpts(s[4])} : s \in Splits(k - 1)}

\* The values of the keys of a root by the number of items they hold.
ListOptsOf == [a \in 0..(MaxNodes - 1) |-> ListOpts(a)]
SpecOptsOf == [a \in 0..(MaxNodes - 1) |-> SpecOpts(a)]

RECURSIVE UrlsOf(_)

\* The dataset URLs of a tree.
UrlsOf(t) ==
    IF Falsy(t) THEN {}
    ELSE (IF "data" \in DOMAIN t /\ "url" \in DOMAIN t.data THEN {t.data.url} ELSE {})
         \cup UNION {UNION {UrlsOf(t[key][i]) : i \in 1..Len(t[key])} :
                         key \in {"layer", "hconcat", "vconcat"} \cap DOMAIN t}
         \cup (IF "spec" \in DOMAIN t THEN UrlsOf(t.spec) ELSE {})

\* The second host is there to give two different URLs one path component: a tree refers
\* to it only next to a reference to the same path on the first host.
SecondHostCollides(t) == "http://b/d1" \in UrlsOf(t) => "http://a/d1" \in UrlsOf(t)

\* The trees of at most MaxNodes items: the root has no datasets field, or one that
\* counts as an item.
IsInputTree(t) ==
    \E k \in 1..MaxNodes : \E s \in Splits(k - 1) :
        \E d \in {<<>>} \cup {<<v>> : v \in DataValues} :
            \E L \in ListOptsOf[s[1]], H \in ListOptsOf[s[2]], V \in ListOptsOf[s[3]] :
                \E S \in SpecOptsOf[s[4]] :
                    LET n == Node(d, L, H, V, S) IN
                    /\ SecondHostCollides(n)
                    /\ \/ t = n
                       \/ /\ k < MaxNodes
                          /\ \E ds \in DatasetsValues : t = Spread(n, "datasets", ds)

----------------------------------------------------------------------------
(* resolveVegaSpecData: state *)

VARIABLES
    input,      \* the spec argument of the call, as the caller's object is now
    main,       \* resolveVegaSpecData: "idle", "await" (at await traverse(spec)), "settled"
    datasets,   \* the datasets accumulator of the call, Undefined before it is created
    frames,     \* the calls of traverse, by the path of their node from the root
    fetches,    \* the calls of vegaLoadData, in call order
    result      \* the promise resolveVegaSpecData returned

resolveVars == <<input, main, datasets, frames, fetches, result>>

\* LoadingDataEditor: state
VARIABLES
    tableProp,  \* props.data: an inline array of rows or a CSV URL
    loader,     \* useAsyncData: the loader's progress and the {data, error} it reports
    value,      \* the plugin value, {edits: [...]}, which props.onEdits updates
    remoteLoads,\* the number of vegaLoadData calls the loader made
    calls,      \* how many times the grid has invoked each callback
    rowLog      \* onAddRows: for every rowIdx, how many added rows its calls gave it to

editorVars == <<tableProp, loader, value, remoteLoads, calls, rowLog>>

\* getCopyValue: state
VARIABLES
    copyArg,    \* the value handed to getCopyValue
    copyPc,     \* "idle" before the call, "done" after it
    copyText    \* the text getCopyValue returned, as a sequence of lexemes

copyVars == <<copyArg, copyPc, copyText>>

vars == <<resolveVars, editorVars, copyVars>>

NoErr == [fetch |-> 0]

\* Faulty variant of Stages: only layers are traversed.
StagesLayerOnly == <<"layer", "data">>

\* Faulty variant of Stages: the nested sub-spec is visited before the lists.
StagesSpecFirst == <<"spec", "layer", "hconcat", "vconcat", "data">>

\* The composition keys in the order traverse visits them, then the node's own data.
Stages == <<"layer", "hconcat", "vconcat", "spec", "data">>

StageOf(key) == CHOOSE i \in 1..Len(Stages) : Stages[i] = key

Awaiting == {"layer", "hconcat", "vconcat", "spec"}

Parent(path) == SubSeq(path, 1, Len(path) - 1)

\* The paths of the calls of traverse a frame awaits at a key.
ChildPaths(path, spec, key) ==
    IF key = "spec" THEN {Append(path, <<"spec", 1>>)}
    ELSE {Append(path, <<key, i>>) : i \in 1..Len(spec[key])}

Put(f, k, v) == [x \in DOMAIN f \cup {k} |-> IF x = k THEN v ELSE f[x]]

\* A call of traverse whose promise is fulfilled with v.
Returned(v) == [pc |-> "done", spec |-> v, thrown |-> NoErr, url |-> NoUrl]

\* A call of traverse suspended at the await of key.
Suspended(key, spec, url) == [pc |-> key, spec |-> spec, thrown |-> NoErr, url |-> url]

\* The value vegaLoadData yields for its i-th call.
Payload(f, i) == [href |-> f.href, call |-> i]

\* The promise of resolveVegaSpecData: pending, fulfilled with a value (attached tells
\* whether the return statement that adds the datasets field produced it), or rejected.
Pending == [status |-> "pending", value |-> Undefined, error |-> NoErr, attached |-> FALSE]
Resolved(v, att) == [status |-> "resolved", value |-> v, error |-> NoErr, attached |-> att]
RejectedWith(err) == [status |-> "rejected", value |-> Undefined, error |-> err, attached |-> FALSE]

\* Faulty variant of ReturnValue: the datasets field is added even when the map is empty.
ReturnValueAlwaysAttached(resolvedSpec, ds) ==
    Resolved(Spread(resolvedSpec, "datasets", ds), TRUE)

\* The return of resolveVegaSpecData after traversal: the resolved tree, with the
\* datasets field added when the accumulated map has keys.
ReturnValue(resolvedSpec, ds) ==
    IF DOMAIN ds = {} THEN Resolved(resolvedSpec, FALSE)
    ELSE Resolved(Spread(resolvedSpec, "datasets", ds), TRUE)

\* Faulty variant of InitialDatasets: the accumulator starts empty.
InitialDatasetsEmpty(spec) == EmptyObject

\* "datasets" in spec ? { ...spec.datasets } : {}
InitialDatasets(spec) == IF "datasets" \in DOMAIN spec THEN spec.datasets ELSE EmptyObject

\* Faulty variant of AfterWrite: the accumulator is the argument's own datasets map
\* when it has one, so a write to it shows in the argument.
AfterWriteShared(spec, ds) ==
    IF "datasets" \in DOMAIN spec THEN Spread(spec, "datasets", ds) ELSE spec

\* The argument after datasets[url.pathname] = data has made the accumulator ds: the
\* accumulator is a new object ({ ...spec.datasets } or {}), the argument is not touched.
AfterWrite(spec, ds) == spec

----------------------------------------------------------------------------
(* traverse: the synchronous run of a call up to its first await, and of a  *)
(* resumed call up to its next await.  st = [frames, fetches].              *)

\* Faulty variant of OwnData: a URL that does not parse rejects the call of traverse.
OwnDataParseThrows(st, path, spec) ==
    IF Falsy(Get(spec, "data")) \/ "url" \notin DOMAIN spec.data THEN
        [st EXCEPT !.frames = Put(@, path, Returned(spec))]
    ELSE LET url == asRemoteURL(spec.data.url) IN
        IF ~url.ok THEN
            [st EXCEPT !.frames = Put(@, path, [pc |-> "rejected", spec |-> spec,
                                                thrown |-> [fetch |-> -1], url |-> NoUrl])]
        ELSE
            [frames |-> Put(st.frames, path, Suspended("data", spec, url)),
             fetches |-> Append(st.fetches,
                                [node |-> path, href |-> url.href,
                                 format |-> Get(spec.data, "format"),
                                 status |-> "pending"])]

\* Faulty variant of OwnData: a URL already requested by an earlier call is not loaded
\* again, the node is renamed at once.
OwnDataDeduplicated(st, path, spec) ==
    IF Falsy(Get(spec, "data")) \/ "url" \notin DOMAIN spec.data THEN
        [st EXCEPT !.frames = Put(@, path, Returned(spec))]
    ELSE LET url == asRemoteURL(spec.data.url) IN
        IF ~url.ok THEN
            [st EXCEPT !.frames = Put(@, path, Returned(spec))]
        ELSE IF \E i \in 1..Len(st.fetches) : st.fetches[i].href = url.href THEN
            [st EXCEPT !.frames =
                Put(@, path, Returned(Spread(spec, "data", [name |-> url.pathname])))]
        ELSE
            [frames |-> Put(st.frames, path, Suspended("data", spec, url)),
             fetches |-> Append(st.fetches,
                                [node |-> path, href |-> url.href,
                                 format |-> Get(spec.data, "format"),
                                 status |-> "pending"])]

\* The node's own data: return the node, or call vegaLoadData and await it.
OwnData(st, path, spec) ==
    IF Falsy(Get(spec, "data")) THEN
        [st EXCEPT !.frames = Put(@, path, Returned(spec))]
    ELSE IF "url" \notin DOMAIN spec.data THEN
        [st EXCEPT !.frames = Put(@, path, Returned(spec))]
    ELSE LET url == asRemoteURL(spec.data.url) IN
        IF ~url.ok THEN
            [st EXCEPT !.frames = Put(@, path, Returned(spec))]
        ELSE
            [frames |-> Put(st.frames, path, Suspended("data", spec, url)),
             fetches |-> Append(st.fetches,
                                [node |-> path, href |-> url.href,
                                 format |-> Get(spec.data, "format"),
                                 status |-> "pending"])]

RECURSIVE Traverse(_, _, _), TraverseFrom(_, _, _, _), TraverseAll(_, _, _, _, _)

\* traverse(spec) called for the node at path.
Traverse(st, path, spec) ==
    IF Falsy(spec) THEN [st EXCEPT !.frames = Put(@, path, Returned(spec))]
    ELSE TraverseFrom(st, path, spec, 1)

\* Faulty variant of TraverseAll: the next element is called only when the one before it
\* has returned, as a loop with an await inside would do.
TraverseAllOneByOne(st, path, key, list, i) ==
    IF i > Len(list) THEN st
    ELSE LET called == Traverse(st, Append(path, <<key, i>>), list[i]) IN
         IF called.frames[Append(path, <<key, i>>)].pc = "done"
         THEN TraverseAll(called, path, key, list, i + 1)
         ELSE called

\* list.map(traverse): the calls are made in list order, each running to its first await.
TraverseAll(st, path, key, list, i) ==
    IF i > Len(list) THEN st
    ELSE TraverseAll(Traverse(st, Append(path, <<key, i>>), list[i]), path, key, list, i + 1)

\* The body of traverse from the i-th stage on.
TraverseFrom(st, path, spec, i) ==
    LET key == Stages[i] IN
    IF key = "data" THEN OwnData(st, path, spec)
    ELSE IF key \notin DOMAIN spec THEN TraverseFrom(st, path, spec, i + 1)
    ELSE LET called == IF key = "spec"
                       THEN Traverse(st, Append(path, <<"spec", 1>>), spec.spec)
                       ELSE TraverseAll(st, path, key, spec[key], 1)
         IN [called EXCEPT !.frames = Put(@, path, Suspended(key, spec, NoUrl))]

\* Faulty variant of Rejected: the error is caught and the node returned as it was.
RejectedSwallowed(fr, path, err) == Put(fr, path, Returned(fr[path].spec))

\* The promise of the call at path rejects with err; a parent still awaiting it (through
\* Promise.all or directly) sees its awaited promise reject with the first such error.
Rejected(fr, path, err) ==
    LET own == Put(fr, path, [fr[path] EXCEPT !.pc = "rejected", !.thrown = err]) IN
    IF path = <<>> THEN own
    ELSE LET p == Parent(path) IN
         IF own[p].pc \in Awaiting /\ own[p].thrown = NoErr
         THEN [own EXCEPT ![p].thrown = err]
         ELSE own

----------------------------------------------------------------------------
(* resolveVegaSpecData: actions *)

\* Before the call: the argument is null, undefined or a spec tree; the data editor is
\* not mounted.
InitResolve ==
    /\ \/ input \in {Null, Undefined}
       \/ IsInputTree(input)
    /\ main = "idle"
    /\ datasets = Undefined
    /\ frames = EmptyObject
    /\ fetches = <<>>
    /\ result = Pending
    /\ tableProp = [array |-> TRUE, rows |-> <<>>, url |-> ""]
    /\ loader = [pc |-> "idle", hasData |-> FALSE, data |-> <<>>,
                 error |-> [message |-> "none"]]
    /\ value = [edits |-> <<>>]
    /\ remoteLoads = 0
    /\ calls = [onAddEdits |-> 0, onAddRows |-> 0]
    /\ rowLog = <<>>
    /\ copyArg = Undefined
    /\ copyPc = "idle"
    /\ copyText = <<>>

\* Faulty variant of Call: no guard for a falsy argument, whose fields cannot be read.
CallWithoutFalsyGuard ==
    /\ main = "idle"
    /\ IF Falsy(input) THEN
          /\ main' = "settled"
          /\ result' = RejectedWith([fetch |-> -1])
          /\ UNCHANGED <<datasets, frames, fetches>>
       ELSE
          LET st == Traverse([frames |-> EmptyObject, fetches |-> <<>>], <<>>, input) IN
          /\ main' = "await"
          /\ datasets' = InitialDatasets(input)
          /\ frames' = st.frames
          /\ fetches' = st.fetches
          /\ UNCHANGED result
    /\ UNCHANGED <<input, editorVars, copyVars>>

\* resolveVegaSpecData(input) is called and runs to its first await.
Call ==
    /\ main = "idle"
    /\ IF Falsy(input) THEN
          /\ main' = "settled"
          /\ result' = Resolved(input, FALSE)
          /\ UNCHANGED <<datasets, frames, fetches>>
       ELSE
          LET st == Traverse([frames |-> EmptyObject, fetches |-> <<>>], <<>>, input) IN
          /\ main' = "await"
          /\ datasets' = InitialDatasets(input)
          /\ frames' = st.frames
          /\ fetches' = st.fetches
          /\ UNCHANGED result
    /\ UNCHANGED <<input, editorVars, copyVars>>

\* Faulty variant of FetchSucceeds: the payload is stored under the URL's href.
FetchSucceedsKeyedByHref(i) ==
    /\ fetches[i].status = "pending"
    /\ LET path == fetches[i].node
           fr == frames[path]
       IN /\ fetches' = [fetches EXCEPT ![i].status = "ok"]
          /\ datasets' = Put(datasets, fr.url.href, Payload(fetches[i], i))
          /\ input' = AfterWrite(input, datasets')
          /\ frames' = Put(frames, path,
                           Returned(Spread(fr.spec, "data", [name |-> fr.url.pathname])))
    /\ UNCHANGED <<main, result, editorVars, copyVars>>

\* The i-th vegaLoadData call fulfils; the call of traverse awaiting it stores the
\* payload under the URL's pathname and returns the node with data replaced by the name.
FetchSucceeds(i) ==
    /\ fetches[i].status = "pending"
    /\ LET path == fetches[i].node
           fr == frames[path]
       IN /\ fetches' = [fetches EXCEPT ![i].status = "ok"]
          /\ datasets' = Put(datasets, fr.url.pathname, Payload(fetches[i], i))
          /\ input' = AfterWrite(input, datasets')
          /\ frames' = Put(frames, path,
                           Returned(Spread(fr.spec, "data", [name |-> fr.url.pathname])))
    /\ UNCHANGED <<main, result, editorVars, copyVars>>

\* The i-th vegaLoadData call rejects; the call of traverse awaiting it rejects.
FetchFails(i) ==
    /\ fetches[i].status = "pending"
    /\ fetches' = [fetches EXCEPT ![i].status = "failed"]
    /\ frames' = Rejected(frames, fetches[i].node, [fetch |-> i])
    /\ UNCHANGED <<input, main, datasets, result, editorVars, copyVars>>

\* Faulty variant of Resume: the rejection of an awaited promise is ignored, the call
\* goes on with the nodes as they are once every awaited call has settled.
ResumeIgnoringRejection(path) ==
    LET fr == frames[path]
        key == fr.pc
        kids == ChildPaths(path, fr.spec, key)
    IN /\ key \in Awaiting
       /\ \A c \in kids : frames[c].pc \in {"done", "rejected"}
       /\ LET resolved == IF key = "spec"
                          THEN frames[Append(path, <<"spec", 1>>)].spec
                          ELSE [i \in 1..Len(fr.spec[key]) |->
                                   frames[Append(path, <<key, i>>)].spec]
              st == TraverseFrom([frames |-> frames, fetches |-> fetches], path,
                                 Spread(fr.spec, key, resolved), StageOf(key) + 1)
          IN /\ frames' = st.frames
             /\ fetches' = st.fetches
       /\ UNCHANGED <<input, main, datasets, result, editorVars, copyVars>>

\* A call of traverse resumes from the await of a composition key: it throws when the
\* awaited promise rejected, and otherwise replaces the key by the children's results
\* and runs on to its next await.
Resume(path) ==
    LET fr == frames[path]
        key == fr.pc
        kids == ChildPaths(path, fr.spec, key)
    IN /\ key \in Awaiting
       /\ IF fr.thrown # NoErr THEN
             /\ frames' = Rejected(frames, path, fr.thrown)
             /\ UNCHANGED fetches
          ELSE
             /\ \A c \in kids : frames[c].pc = "done"
             /\ LET resolved == IF key = "spec"
                                THEN frames[Append(path, <<"spec", 1>>)].spec
                                ELSE [i \in 1..Len(fr.spec[key]) |->
                                         frames[Append(path, <<key, i>>)].spec]
                    st == TraverseFrom([frames |-> frames, fetches |-> fetches], path,
                                       Spread(fr.spec, key, resolved), StageOf(key) + 1)
                IN /\ frames' = st.frames
                   /\ fetches' = st.fetches
       /\ UNCHANGED <<input, main, datasets, result, editorVars, copyVars>>

\* resolveVegaSpecData resumes from await traverse(spec) and settles its promise.
Finish ==
    /\ main = "await"
    /\ frames[<<>>].pc \in {"done", "rejected"}
    /\ main' = "settled"
    /\ result' =
         IF frames[<<>>].pc = "rejected"
         THEN RejectedWith(frames[<<>>].thrown)
         ELSE ReturnValue(frames[<<>>].spec, datasets)
    /\ UNCHANGED <<input, datasets, frames, fetches, editorVars, copyVars>>

NextResolve ==
    \/ Call
    \/ \E i \in 1..Len(fetches) : FetchSucceeds(i)
    \/ \E i \in 1..Len(fetches) : FetchFails(i)
    \/ \E path \in DOMAIN frames : Resume(path)
    \/ Finish

----------------------------------------------------------------------------
(* LoadingDataEditor *)

\* Bounds of the data editor: the rows of a table, the rows of one onAddRows batch and
\* the records of one onAddEdits batch, the records of the edits value, the callbacks run.
MaxRows == 2
MaxBatch == 2
MaxEdits == 3
MaxCalls == 3

\* A table of n rows.
Table(n) == [i \in 1..n |-> [a |-> i, b |-> 0]]

NoError == [message |-> "none"]

\* The rows the grid can hand to onAddRows, each the list of its Object.entries.
AddableRows ==
    { <<>>,
      << <<"a", 1>> >>,
      << <<"b", 2>> >>,
      << <<"a", 1>>, <<"b", 2>> >>,
      << <<"b", 1>>, <<"a", 2>> >> }

\* The edit records the grid can hand to onAddEdits.
EditRecords == [rowIdx : 0..(MaxRows - 1), columnId : {"a"}, value : {3}]

SeqsUpTo(S, n) == UNION {[1..k -> S] : k \in 0..n}

RECURSIVE NewEdits(_, _, _), NewEditsOneBased(_, _, _)

\* A faulty variant: the rows of the batch are numbered from one.
NewEditsOneBased(rows, dataLength, i) ==
    IF i > Len(rows) THEN <<>>
    ELSE [j \in 1..Len(rows[i]) |->
             [rowIdx |-> dataLength + i,
              columnId |-> rows[i][j][1],
              value |-> rows[i][j][2]]]
         \o NewEditsOneBased(rows, dataLength, i + 1)

\* rows.flatMap((row, rowIndex) => Object.entries(row).map(([columnId, value]) =>
\*     ({rowIdx: data.length + rowIndex, columnId, value}))), from the i-th row on
NewEdits(rows, dataLength, i) ==
    IF i > Len(rows) THEN <<>>
    ELSE [j \in 1..Len(rows[i]) |->
             [rowIdx |-> dataLength + (i - 1),
              columnId |-> rows[i][j][1],
              value |-> rows[i][j][2]]]
         \o NewEdits(rows, dataLength, i + 1)

RECURSIVE EntriesBefore(_, _), Logged(_, _, _, _)

\* The number of entries of the rows before the i-th.
EntriesBefore(rows, i) == IF i <= 1 THEN 0 ELSE Len(rows[i - 1]) + EntriesBefore(rows, i - 1)

\* The log after a call: every row of the batch that got records, from the i-th on, is
\* counted under the rowIdx of its first record.
Logged(log, rows, newEdits, i) ==
    IF i > Len(rows) THEN log
    ELSE IF rows[i] = <<>> THEN Logged(log, rows, newEdits, i + 1)
    ELSE LET idx == newEdits[EntriesBefore(rows, i) + 1].rowIdx
             count == IF idx \in DOMAIN log THEN log[idx] ELSE 0
         IN Logged([k \in DOMAIN log \cup {idx} |-> IF k = idx THEN count + 1 ELSE log[k]],
                   rows, newEdits, i + 1)

\* What LoadingDataEditor renders.
View ==
    IF loader.error # NoError THEN "error"
    ELSE IF ~loader.hasData THEN "loading"
    ELSE "grid"

\* The text of the error panel: error.message || "An unknown error occurred"
ErrorText ==
    IF loader.error.message = "" THEN "An unknown error occurred" ELSE loader.error.message

----------------------------------------------------------------------------
(* LoadingDataEditor: actions *)

\* The editor is mounted with its props and initial value; resolveVegaSpecData is not
\* called.
InitEditor ==
    /\ tableProp \in {[array |-> TRUE, rows |-> Table(n), url |-> ""] : n \in 0..MaxRows}
                     \cup {[array |-> FALSE, rows |-> <<>>, url |-> "data.csv"]}
    /\ loader = [pc |-> "idle", hasData |-> FALSE, data |-> <<>>, error |-> NoError]
    /\ value \in {[edits |-> e] : e \in SeqsUpTo(EditRecords, 1)}
    /\ remoteLoads = 0
    /\ calls = [onAddEdits |-> 0, onAddRows |-> 0]
    /\ rowLog = <<>>
    /\ input = Undefined
    /\ main = "idle"
    /\ datasets = Undefined
    /\ frames = EmptyObject
    /\ fetches = <<>>
    /\ result = Pending
    /\ copyArg = Undefined
    /\ copyPc = "idle"
    /\ copyText = <<>>

\* Faulty variant of StartLoad: vegaLoadData is called whatever props.data is.
StartLoadAlwaysRemote ==
    /\ loader.pc = "idle"
    /\ loader' = [loader EXCEPT !.pc = "pending"]
    /\ remoteLoads' = remoteLoads + 1
    /\ UNCHANGED <<tableProp, value, calls, rowLog, resolveVars, copyVars>>

\* useAsyncData runs the loader: an inline array is returned as it is, a URL is loaded
\* with vegaLoadData.
StartLoad ==
    /\ loader.pc = "idle"
    /\ loader' = [loader EXCEPT !.pc = "pending"]
    /\ remoteLoads' = IF tableProp.array THEN remoteLoads ELSE remoteLoads + 1
    /\ UNCHANGED <<tableProp, value, calls, rowLog, resolveVars, copyVars>>

\* The loader's promise fulfils: with props.data, or with the rows vegaLoadData parsed.
LoadSucceeds ==
    /\ loader.pc = "pending"
    /\ \E rows \in IF tableProp.array THEN {tableProp.rows}
                   ELSE {Table(n) : n \in 0..MaxRows} :
          loader' = [loader EXCEPT !.pc = "done", !.hasData = TRUE, !.data = rows]
    /\ UNCHANGED <<tableProp, value, remoteLoads, calls, rowLog, resolveVars, copyVars>>

\* vegaLoadData rejects; useAsyncData reports the error.
LoadFails ==
    /\ loader.pc = "pending"
    /\ ~tableProp.array
    /\ \E msg \in {"", "Failed to load data"} :
          loader' = [loader EXCEPT !.pc = "done", !.error = [message |-> msg]]
    /\ UNCHANGED <<tableProp, value, remoteLoads, calls, rowLog, resolveVars, copyVars>>

\* Faulty variant of OnAddEdits: the new records replace the previous ones.
OnAddEditsReplacing(edits) ==
    /\ View = "grid"
    /\ calls.onAddEdits + calls.onAddRows < MaxCalls
    /\ Len(edits) <= MaxEdits
    /\ value' = Spread(value, "edits", edits)
    /\ calls' = [calls EXCEPT !.onAddEdits = @ + 1]
    /\ UNCHANGED <<tableProp, loader, remoteLoads, rowLog, resolveVars, copyVars>>

\* onAddEdits: props.onEdits((v) => ({ ...v, edits: [...v.edits, ...edits] }))
OnAddEdits(edits) ==
    /\ View = "grid"
    /\ calls.onAddEdits + calls.onAddRows < MaxCalls
    /\ Len(value.edits) + Len(edits) <= MaxEdits
    /\ value' = Spread(value, "edits", value.edits \o edits)
    /\ calls' = [calls EXCEPT !.onAddEdits = @ + 1]
    /\ UNCHANGED <<tableProp, loader, remoteLoads, rowLog, resolveVars, copyVars>>

\* onAddRows: one record per entry of every row, then the same update of the value.
OnAddRows(rows) ==
    LET newEdits == NewEdits(rows, Len(loader.data), 1) IN
    /\ View = "grid"
    /\ calls.onAddEdits + calls.onAddRows < MaxCalls
    /\ Len(value.edits) + Len(newEdits) <= MaxEdits
    /\ value' = Spread(value, "edits", value.edits \o newEdits)
    /\ calls' = [calls EXCEPT !.onAddRows = @ + 1]
    /\ rowLog' = Logged(rowLog, rows, newEdits, 1)
    /\ UNCHANGED <<tableProp, loader, remoteLoads, resolveVars, copyVars>>

NextEditor ==
    \/ StartLoad
    \/ LoadSucceeds
    \/ LoadFails
    \/ \E edits \in SeqsUpTo(EditRecords, MaxBatch) : OnAddEdits(edits)
    \/ \E rows \in SeqsUpTo(AddableRows, MaxBatch) : OnAddRows(rows)

----------------------------------------------------------------------------
(* getCopyValue (components/editor/output/JsonOutput): the text copied for a  *)
(* JSON-like value.  A string is a sequence of lexemes, so that a prefix can  *)
(* be told from the rest; the text is a sequence of lexemes too.  Line breaks *)
(* and indentation of the text are left out.                                  *)

\* Largest nesting depth of the values handed to getCopyValue.
MaxDepth == 2

Bool(b) == [t |-> "boolean", b |-> b]
Num(n) == [t |-> "number", n |-> n]
Str(s) == [t |-> "string", s |-> s]
Arr(items) == [t |-> "array", items |-> items]
Obj(entries) == [t |-> "object", entries |-> entries]
Entry(k, v) == [key |-> k, value |-> v]

\* The leaf values: booleans, null, undefined, a number, plain strings, strings that
\* spell a literal, and strings with a MIME prefix or a float, set or tuple tag.
CopyLeaves ==
    { Bool(TRUE), Bool(FALSE), Null, Undefined, Num(42),
      Str(<<"simple string">>), Str(<<"true">>), Str(<<"none">>), Str(<<"null">>),
      Str(<<"text/plain", ":", "Hello, ", "\n", "World!">>),
      Str(<<"text/plain+float", ":", "1.23">>),
      Str(<<"text/plain+set", ":", "[", "1,2,3", "]">>),
      Str(<<"text/plain+tuple", ":", "[", "1,2,3", "]">>) }

RECURSIVE CopyValuesOfDepth(_)

\* The values nested at most d deep: arrays and objects around the values one less deep.
CopyValuesOfDepth(d) ==
    IF d = 0 THEN CopyLeaves
    ELSE LET inner == CopyValuesOfDepth(d - 1) IN
         inner
         \cup {Arr(<<>>), Obj(<<>>)}
         \cup {Arr(<<x>>) : x \in inner}
         \cup {Arr(<<Num(42), x, Bool(TRUE), Null>>) : x \in inner}
         \cup {Obj(<<Entry("None", x)>>) : x \in inner}
         \cup {Obj(<<Entry("key1", x), Entry("true", Str(<<"true">>)),
                     Entry("null", Undefined)>>) : x \in inner}

Quote == "\""
MarkOpen == "<py>"
MarkClose == "</py>"

\* A string the last pass turns into bare text.
Marked(lexemes) == Str(<<MarkOpen>> \o lexemes \o <<MarkClose>>)

\* The MIME prefixes a string can carry before its colon.
MimePrefixes == {"text/plain", "text/plain+float", "text/plain+set", "text/plain+tuple"}

HasMimePrefix(s) == Len(s) >= 2 /\ s[1] \in MimePrefixes /\ s[2] = ":"

\* The lexemes between the first and the last one: [1,2,3] without its brackets.
Inside(s) == SubSeq(s, 2, Len(s) - 1)

\* Faulty variant of Replacer: strings that spell a literal are taken for the literal.
ReplacerBySpelling(v) ==
    IF v = Null \/ v = Undefined THEN Marked(<<"None">>)
    ELSE CASE v.t = "boolean" -> Marked(<<IF v.b THEN "True" ELSE "False">>)
           [] v.t = "string" ->
                IF v.s = <<"true">> THEN Marked(<<"True">>)
                ELSE IF v.s \in {<<"none">>, <<"null">>} THEN Marked(<<"None">>)
                ELSE IF ~HasMimePrefix(v.s) THEN v
                ELSE LET rest == SubSeq(v.s, 3, Len(v.s)) IN
                     CASE v.s[1] = "text/plain+float" -> Marked(rest)
                       [] v.s[1] = "text/plain+set" -> Marked(<<"{">> \o Inside(rest) \o <<"}">>)
                       [] v.s[1] = "text/plain+tuple" -> Marked(<<"(">> \o Inside(rest) \o <<")">>)
                       [] OTHER -> Str(rest)
           [] OTHER -> v

\* The first pass, applied to every value of the tree: literals and tagged strings
\* become marked strings, a MIME prefix is cut off, anything else is kept.
Replacer(v) ==
    IF v = Null \/ v = Undefined THEN Marked(<<"None">>)
    ELSE CASE v.t = "boolean" -> Marked(<<IF v.b THEN "True" ELSE "False">>)
           [] v.t = "string" ->
                IF ~HasMimePrefix(v.s) THEN v
                ELSE LET rest == SubSeq(v.s, 3, Len(v.s)) IN
                     CASE v.s[1] = "text/plain+float" -> Marked(rest)
                       [] v.s[1] = "text/plain+set" -> Marked(<<"{">> \o Inside(rest) \o <<"}">>)
                       [] v.s[1] = "text/plain+tuple" -> Marked(<<"(">> \o Inside(rest) \o <<")">>)
                       [] OTHER -> Str(rest)
           [] OTHER -> v

\* A string's lexemes as JSON writes them between quotes.
Escaped(s) == [i \in 1..Len(s) |-> IF s[i] = "\n" THEN "\\n" ELSE s[i]]

RECURSIVE Stringify(_), StringifyItems(_, _), StringifyEntries(_, _), Unmark(_)

\* JSON.stringify with the replacer: the second pass.
Stringify(v) ==
    LET r == Replacer(v) IN
    CASE r.t = "number" -> <<ToString(r.n)>>
      [] r.t = "string" -> <<Quote>> \o Escaped(r.s) \o <<Quote>>
      [] r.t = "array" -> <<"[">> \o StringifyItems(r.items, 1) \o <<"]">>
      [] r.t = "object" -> <<"{">> \o StringifyEntries(r.entries, 1) \o <<"}">>

StringifyItems(items, i) ==
    IF i > Len(items) THEN <<>>
    ELSE (IF i > 1 THEN <<",">> ELSE <<>>)
         \o Stringify(items[i]) \o StringifyItems(items, i + 1)

StringifyEntries(entries, i) ==
    IF i > Len(entries) THEN <<>>
    ELSE (IF i > 1 THEN <<",">> ELSE <<>>)
         \o <<Quote, entries[i].key, Quote, ":">>
         \o Stringify(entries[i].value) \o StringifyEntries(entries, i + 1)

\* The last pass: a quote and the mark next to it are dropped, which leaves the marked
\* text bare.
Unmark(text) ==
    IF text = <<>> THEN <<>>
    ELSE IF Len(text) >= 2 /\ text[1] = Quote /\ text[2] = MarkOpen
         THEN Unmark(SubSeq(text, 3, Len(text)))
    ELSE IF Len(text) >= 2 /\ text[1] = MarkClose /\ text[2] = Quote
         THEN Unmark(SubSeq(text, 3, Len(text)))
    ELSE <<text[1]>> \o Unmark(Tail(text))

getCopyValue(v) == Unmark(Stringify(v))

\* Before the call: a value to copy; the resolver and the editor are idle.
InitCopy ==
    /\ copyArg \in CopyValuesOfDepth(MaxDepth)
    /\ copyPc = "idle"
    /\ copyText = <<>>
    /\ input = Undefined
    /\ main = "idle"
    /\ datasets = Undefined
    /\ frames = EmptyObject
    /\ fetches = <<>>
    /\ result = Pending
    /\ tableProp = [array |-> TRUE, rows |-> <<>>, url |-> ""]
    /\ loader = [pc |-> "idle", hasData |-> FALSE, data |-> <<>>,
                 error |-> [message |-> "none"]]
    /\ value = [edits |-> <<>>]
    /\ remoteLoads = 0
    /\ calls = [onAddEdits |-> 0, onAddRows |-> 0]
    /\ rowLog = <<>>

\* getCopyValue(copyArg) is called.
CopyValue ==
    /\ copyPc = "idle"
    /\ copyText' = getCopyValue(copyArg)
    /\ copyPc' = "done"
    /\ UNCHANGED <<copyArg, resolveVars, editorVars>>

NextCopy == CopyValue

----------------------------------------------------------------------------
(* Specifications *)

SpecResolve == InitResolve /\ [][NextResolve]_vars

SpecEditor == InitEditor /\ [][NextEditor]_vars

SpecCopy == InitCopy /\ [][NextCopy]_vars

----------------------------------------------------------------------------
(* Reading spec trees, for the properties below *)

ListKeys == {"layer", "hconcat", "vconcat"}

RECURSIVE PathsOf(_), NodeAt(_, _), IsPathOf(_, _)

\* The paths of the nodes of t reachable through layer, hconcat, vconcat and spec.
PathsOf(t) ==
    {<<>>}
    \cup UNION {UNION {{<< <<key, i>> >> \o q : q \in PathsOf(t[key][i])} :
                       i \in {j \in 1..Len(t[key]) : ~Falsy(t[key][j])}} :
                key \in ListKeys \cap DOMAIN t}
    \cup (IF "spec" \in DOMAIN t /\ ~Falsy(t.spec)
          THEN {<< <<"spec", 1>> >> \o q : q \in PathsOf(t.spec)} ELSE {})

\* The node of t at a path.
NodeAt(t, path) ==
    IF path = <<>> THEN t
    ELSE LET step == Head(path) IN
         NodeAt(IF step[1] = "spec" THEN t.spec ELSE t[step[1]][step[2]], Tail(path))

\* The path leads to a node of t.
IsPathOf(t, path) ==
    IF Falsy(t) THEN FALSE
    ELSE IF path = <<>> THEN TRUE
    ELSE LET step == Head(path) IN
         /\ step[1] \in DOMAIN t
         /\ IF step[1] = "spec" THEN IsPathOf(t.spec, Tail(path))
            ELSE /\ step[2] \in 1..Len(t[step[1]])
                 /\ IsPathOf(t[step[1]][step[2]], Tail(path))

\* The node has a data field with a url / with a url that asRemoteURL parses.
HasUrl(n) == "data" \in DOMAIN n /\ "url" \in DOMAIN n.data
HasParseableUrl(n) == HasUrl(n) /\ asRemoteURL(n.data.url).ok
PathnameOf(n) == asRemoteURL(n.data.url).pathname

UrlPaths == {p \in PathsOf(input) : HasParseableUrl(NodeAt(input, p))}
BadUrlPaths == {p \in PathsOf(input) : HasUrl(NodeAt(input, p)) /\ ~HasParseableUrl(NodeAt(input, p))}

\* The pathnames of the parseable dataset URLs of the input.
UrlPathnames == {PathnameOf(NodeAt(input, p)) : p \in UrlPaths}

ResolvedOk == result.status = "resolved" /\ ~Falsy(input)

----------------------------------------------------------------------------
(* Properties of resolveVegaSpecData *)

\* C1: when the call resolves (every fetch succeeded), every node of the input with a
\* parseable dataset URL has, in the result, data = {name: <pathname of the URL>}, and the
\* root's datasets has an entry under that pathname holding the payload of a fetch made
\* for a node with that pathname.
C1_NamesAreDatasetKeys ==
    ResolvedOk =>
        LET urlPaths == UrlPaths IN
        \A p \in urlPaths :
            LET name == PathnameOf(NodeAt(input, p)) IN
            /\ IsPathOf(result.value, p)
            /\ NodeAt(result.value, p).data = [name |-> name]
            /\ "datasets" \in DOMAIN result.value
            /\ name \in DOMAIN result.value.datasets
            /\ \E i \in 1..Len(fetches) :
                  /\ fetches[i].status = "ok"
                  /\ fetches[i].node \in urlPaths
                  /\ PathnameOf(NodeAt(input, fetches[i].node)) = name
                  /\ result.value.datasets[name] = Payload(fetches[i], i)

C1_Witness ==
    /\ ResolvedOk
    /\ Cardinality(UrlPaths) >= 2
    /\ \E p \in UrlPaths : Len(p) = 2

\* A rejection is on its way to the caller: the root call of traverse has rejected, or a
\* call is about to resume from an await whose promise rejected.
RejectionInFlight ==
    \/ frames[<<>>].pc = "rejected"
    \/ \E path \in DOMAIN frames :
          frames[path].pc \in Awaiting /\ frames[path].thrown # NoErr

\* C2: once a fetch has failed the call never resolves and its rejection is under way
\* whatever the other fetches do; when it settles it is rejected, carries no spec, and its
\* error is the error of a failed fetch; the node of a failed fetch is not fetched again.
C2_FetchFailureRejects ==
    (\E i \in 1..Len(fetches) : fetches[i].status = "failed") =>
        /\ result.status # "resolved"
        /\ main = "await" => RejectionInFlight
        /\ main = "settled" =>
              /\ result.status = "rejected"
              /\ result.value = Undefined
              /\ \E i \in 1..Len(fetches) :
                    fetches[i].status = "failed" /\ result.error = [fetch |-> i]
        /\ \A i, j \in 1..Len(fetches) :
              (fetches[i].status = "failed" /\ fetches[j].node = fetches[i].node) => i = j

C2_Witness ==
    /\ main = "settled"
    /\ result.status = "rejected"
    /\ \E i, j \in 1..Len(fetches) : fetches[i].status = "failed" /\ fetches[j].status = "ok"

\* C3: a node whose dataset URL does not parse is never fetched and never rejects the
\* call; it keeps its data field in the result and adds no datasets key; when the only
\* dataset references of the input are such URLs the call resolves with the input.
C3_BadUrlPassesThrough ==
    /\ \A i \in 1..Len(fetches) : asRemoteURL(NodeAt(input, fetches[i].node).data.url).ok
    /\ (~Falsy(input) /\ main # "idle") =>
          \A k \in DOMAIN datasets \ DOMAIN InitialDatasets(input) :
              \E i \in 1..Len(fetches) : PathnameOf(NodeAt(input, fetches[i].node)) = k
    /\ ResolvedOk =>
          \A p \in BadUrlPaths :
              /\ IsPathOf(result.value, p)
              /\ NodeAt(result.value, p).data = NodeAt(input, p).data
    /\ (~Falsy(input) /\ main = "settled" /\ UrlPaths = {}) =>
          result.status = "resolved" /\ result.value = input /\ fetches = <<>>

C3_Witness ==
    /\ ResolvedOk
    /\ BadUrlPaths # {}
    /\ UrlPaths = {}
    /\ \A p \in PathsOf(input) : "data" \in DOMAIN NodeAt(input, p) => p \in BadUrlPaths

\* The input has no node with a data field that has a url.
NoUrlAnywhere == \A p \in PathsOf(input) : ~HasUrl(NodeAt(input, p))

\* C4 as stated: a fetch is only ever issued for a node whose data field has a url, so
\* for an input none of whose nodes has one no fetch is issued; the call then resolves
\* with a value equal to the input, and no datasets map is attached.
C4_NoMapAttached ==
    /\ \A i \in 1..Len(fetches) : HasUrl(NodeAt(input, fetches[i].node))
    /\ (~Falsy(input) /\ main = "settled" /\ NoUrlAnywhere) =>
              /\ fetches = <<>>
              /\ result.status = "resolved"
              /\ result.value = input
              /\ ~result.attached
              /\ "datasets" \notin DOMAIN result.value

\* C4, amended: a fetch is only ever issued for a node whose data field has a url, so
\* for an input none of whose nodes has one no fetch is issued; the call then resolves
\* with a value equal to the input; a datasets map is attached exactly when the input
\* root already had a non-empty one, and the result has a datasets field exactly when the
\* input has.
C4_NothingToResolve ==
    /\ \A i \in 1..Len(fetches) : HasUrl(NodeAt(input, fetches[i].node))
    /\ (~Falsy(input) /\ main = "settled" /\ NoUrlAnywhere) =>
              /\ fetches = <<>>
              /\ result.status = "resolved"
              /\ result.value = input
              /\ result.attached <=> DOMAIN InitialDatasets(input) # {}
              /\ "datasets" \in DOMAIN result.value <=> "datasets" \in DOMAIN input

C4_Witness ==
    /\ ResolvedOk
    /\ NoUrlAnywhere
    /\ \E p \in PathsOf(input) \ {<<>>} : "data" \in DOMAIN NodeAt(input, p)
    /\ DOMAIN InitialDatasets(input) # {}
    /\ result.attached

\* C5 as stated: the datasets field is attached exactly when at least one dataset was
\* resolved, so its presence in the result tells whether anything was resolved.
C5_AttachedIffResolved ==
    ResolvedOk =>
        /\ result.attached <=> Len(fetches) >= 1
        /\ "datasets" \in DOMAIN result.value <=> Len(fetches) >= 1

\* C5, amended: the datasets field is attached exactly when the accumulated map has keys,
\* that is when a dataset was resolved or the input's own datasets map was non-empty; when
\* nothing was resolved the result equals the input; the result has a datasets field
\* exactly when a dataset was resolved or the input had one.
C5_AttachedIffAccumulated ==
    ResolvedOk =>
        /\ result.attached <=> (Len(fetches) >= 1 \/ DOMAIN InitialDatasets(input) # {})
        /\ Len(fetches) = 0 => result.value = input
        /\ "datasets" \in DOMAIN result.value
              <=> (Len(fetches) >= 1 \/ "datasets" \in DOMAIN input)

C5_Witness ==
    /\ ResolvedOk
    /\ Len(fetches) = 0
    /\ result.attached
    /\ PathsOf(input) # {<<>>}

\* C6: when the input root has a datasets map and the call resolves something, the
\* returned map has the old keys and the resolved pathnames; an old entry keeps its value
\* unless its key is a resolved pathname, and then it holds a fetched payload.
C6_ExistingDatasetsKept ==
    (ResolvedOk /\ "datasets" \in DOMAIN input) =>
        LET resolved == UrlPathnames IN
        IF resolved = {} THEN result.value = input
        ELSE /\ "datasets" \in DOMAIN result.value
             /\ DOMAIN result.value.datasets = DOMAIN input.datasets \cup resolved
             /\ \A k \in DOMAIN input.datasets \ resolved :
                   result.value.datasets[k] = input.datasets[k]
             /\ \A k \in resolved :
                   \E i \in 1..Len(fetches) :
                       /\ PathnameOf(NodeAt(input, fetches[i].node)) = k
                       /\ result.value.datasets[k] = Payload(fetches[i], i)

C6_Witness ==
    /\ ResolvedOk
    /\ "datasets" \in DOMAIN input
    /\ DOMAIN input.datasets \cap UrlPathnames # {}
    /\ DOMAIN input.datasets \ UrlPathnames # {}
    /\ UrlPathnames \ DOMAIN input.datasets # {}

\* C7: vegaLoadData is called at most once per node, only for nodes with a parseable
\* dataset URL and with that URL; when the call resolves it was called exactly once for
\* each such node, and the keys the returned map gained are the distinct pathnames.
C7_OneFetchPerOccurrence ==
    /\ \A i \in 1..Len(fetches) :
          /\ \A j \in (i + 1)..Len(fetches) : fetches[j].node # fetches[i].node
          /\ IsPathOf(input, fetches[i].node)
          /\ LET url == asRemoteURL(NodeAt(input, fetches[i].node).data.url) IN
             url.ok /\ fetches[i].href = url.href
    /\ ResolvedOk =>
          LET urlPaths == UrlPaths IN
          /\ {fetches[i].node : i \in 1..Len(fetches)} = urlPaths
          /\ Len(fetches) = Cardinality(urlPaths)
          /\ urlPaths # {} =>
                DOMAIN result.value.datasets = DOMAIN InitialDatasets(input) \cup UrlPathnames

C7_Witness ==
    /\ ResolvedOk
    /\ Len(fetches) = 3
    /\ Cardinality({fetches[i].href : i \in 1..Len(fetches)}) = 2
    /\ Cardinality(UrlPathnames) = 1
    /\ "datasets" \notin DOMAIN input
    /\ Cardinality(DOMAIN result.value.datasets) = 1

\* C8: a null or undefined input is returned as it is: no traverse call, no fetch and no
\* datasets accumulator.
C8_FalsyIdentity ==
    Falsy(input) =>
        /\ fetches = <<>>
        /\ frames = EmptyObject
        /\ datasets = Undefined
        /\ result \in {Pending, Resolved(input, FALSE)}
        /\ main = "settled" => result = Resolved(input, FALSE)

C8_Witness == input = Null /\ main = "settled" /\ result.value = Null

RECURSIVE Rewritten(_)

\* The tree with every parseable dataset URL, at any depth, replaced by its name.
Rewritten(n) ==
    IF Falsy(n) THEN n
    ELSE [k \in DOMAIN n |->
            CASE k \in ListKeys -> [i \in 1..Len(n[k]) |-> Rewritten(n[k][i])]
              [] k = "spec" -> Rewritten(n.spec)
              [] k = "data" -> IF HasParseableUrl(n) THEN [name |-> PathnameOf(n)] ELSE n.data
              [] OTHER -> n[k]]

WithoutDatasets(n) == [k \in DOMAIN n \ {"datasets"} |-> n[k]]

\* C9: when the call resolves, the result is the input tree with every dataset URL, at
\* any depth under layer, hconcat, vconcat and spec, replaced by its name; no nested node
\* has a datasets field; the root's map has every resolved pathname and no other new key.
C9_NestedResolution ==
    ResolvedOk =>
        /\ WithoutDatasets(result.value) = WithoutDatasets(Rewritten(input))
        /\ \A p \in PathsOf(result.value) \ {<<>>} :
              "datasets" \notin DOMAIN NodeAt(result.value, p)
        /\ LET resolved == UrlPathnames IN
           resolved # {} =>
              /\ resolved \subseteq DOMAIN result.value.datasets
              /\ DOMAIN result.value.datasets \ DOMAIN InitialDatasets(input)
                    \subseteq resolved

C9_Witness ==
    /\ ResolvedOk
    /\ \E p \in UrlPaths : Len(p) = 2 /\ p[1][1] # p[2][1]
    /\ Cardinality(UrlPathnames) = 2

----------------------------------------------------------------------------
(* Properties of the order of the fetches *)

\* The place of a key in an order of the composition keys.
PlaceIn(order, key) == CHOOSE i \in 1..Len(order) : order[i] = key

\* The nodes with a parseable URL below the node at path p through its key g.
UrlPathsUnder(urlPaths, p, g) ==
    {q \in urlPaths : Len(q) > Len(p) /\ SubSeq(q, 1, Len(p)) = p /\ q[Len(p) + 1][1] = g}

\* Whenever a fetch has been started below a node through one of its keys, every fetch
\* below that node through a key that comes earlier in the order has been started and
\* has succeeded.
GroupsInOrder(order) ==
    Len(fetches) >= 1 =>
        LET urlPaths == UrlPaths IN
        \A i \in 1..Len(fetches) :
            LET n == fetches[i].node IN
            \A m \in 0..(Len(n) - 1) :
                LET p == SubSeq(n, 1, m) IN
                \A g \in DOMAIN NodeAt(input, p) \cap {"spec", "layer", "hconcat", "vconcat"} :
                    PlaceIn(order, g) < PlaceIn(order, n[m + 1][1]) =>
                        \A q \in UrlPathsUnder(urlPaths, p, g) :
                            \E j \in 1..Len(fetches) :
                                fetches[j].node = q /\ fetches[j].status = "ok"

\* C13 as stated: at every node the keys are visited in the order spec, layer, hconcat,
\* vconcat, and no fetch of a later group is started before every fetch of the earlier
\* groups of the same node has completed.
C13_SpecFirstOrder == GroupsInOrder(<<"spec", "layer", "hconcat", "vconcat">>)

\* C13, amended: the order is layer, hconcat, vconcat, then the nested sub-spec; no
\* fetch of a later group is started before every fetch of the earlier groups of the
\* same node has completed.
C13_ListsThenSpecOrder == GroupsInOrder(<<"layer", "hconcat", "vconcat", "spec">>)

C13_Witness ==
    /\ Len(fetches) = 2
    /\ fetches[1].node = << <<"vconcat", 1>> >>
    /\ fetches[1].status = "ok"
    /\ fetches[2].node = << <<"spec", 1>> >>
    /\ fetches[2].status = "pending"

\* The node at path q lies strictly below the node at path p.
Below(p, q) == Len(q) > Len(p) /\ SubSeq(q, 1, Len(p)) = p

\* The node has none of the composition keys.
IsLeaf(n) == DOMAIN n \cap {"spec", "layer", "hconcat", "vconcat"} = {}

Fetched(q) == \E j \in 1..Len(fetches) : fetches[j].node = q

\* C14: a call of traverse that awaits a list has called traverse for every element of
\* the list, so the fetches of the elements that are leaves with a dataset URL have all
\* been started together; and when a node's own dataset is fetched every call of
\* traverse below the node has returned and every fetch below it has succeeded.
C14_FanOutFanIn ==
    /\ \A p \in DOMAIN frames :
          frames[p].pc \in ListKeys =>
              LET list == frames[p].spec[frames[p].pc] IN
              /\ \A i \in 1..Len(list) : Append(p, <<frames[p].pc, i>>) \in DOMAIN frames
              /\ \A i \in 1..Len(list) :
                    (IsLeaf(list[i]) /\ HasParseableUrl(list[i])) =>
                        Fetched(Append(p, <<frames[p].pc, i>>))
    /\ \A i \in 1..Len(fetches) :
          LET n == fetches[i].node IN
          /\ \A c \in DOMAIN frames : Below(n, c) => frames[c].pc = "done"
          /\ IsLeaf(NodeAt(input, n)) \/
                \A q \in UrlPaths :
                    Below(n, q) =>
                        \E j \in 1..(i - 1) : fetches[j].node = q /\ fetches[j].status = "ok"

C14_Witness ==
    /\ Len(fetches) = 2
    /\ fetches[1].status = "pending"
    /\ fetches[2].status = "pending"
    /\ fetches[1].node = << <<"hconcat", 1>> >>
    /\ fetches[2].node = << <<"hconcat", 2>> >>
    /\ HasParseableUrl(input)

\* The calls of vegaLoadData for a URL with the path component k; the calls are made in
\* traversal order.
FetchesFor(k) == {j \in 1..Len(fetches) : PathnameOf(NodeAt(input, fetches[j].node)) = k}

\* C15: when the call resolves, the entry under every resolved path component is the
\* payload fetched for the last node in traversal order with that path component,
\* whatever the order in which the fetches completed.
C15_LastInTraversalWins ==
    ResolvedOk =>
        \A k \in UrlPathnames :
            LET last == CHOOSE j \in FetchesFor(k) : \A i \in FetchesFor(k) : i <= j IN
            result.value.datasets[k].href = fetches[last].href

\* After a failed fetch: above the node of the fetch, no node's own dataset has been
\* fetched, and where the way down to the failed fetch goes through a list, nothing has
\* been fetched below that node through a key that comes after the list.  A fetch still
\* in flight has its call of traverse waiting for it.  A settled call with a failed
\* fetch is rejected, and a call that has not settled has no outcome.
C19_NothingStartedAfterFailure ==
    /\ \A i \in 1..Len(fetches) :
          fetches[i].status = "failed" =>
              LET q == fetches[i].node IN
              \A m \in 0..(Len(q) - 1) :
                  LET p == SubSeq(q, 1, m)
                      g == q[m + 1][1]
                  IN /\ ~Fetched(p)
                     /\ g \in ListKeys =>
                           \A j \in 1..Len(fetches) :
                               Below(p, fetches[j].node) =>
                                   PlaceIn(Stages, fetches[j].node[m + 1][1])
                                       <= PlaceIn(Stages, g)
    /\ \A j \in 1..Len(fetches) :
          fetches[j].status = "pending" => frames[fetches[j].node].pc = "data"
    /\ (main = "settled" /\ \E i \in 1..Len(fetches) : fetches[i].status = "failed")
          => result.status = "rejected"
    /\ main # "settled" => result = Pending

\* A step that fails a fetch leaves every other fetch as it is, and a settled call stays
\* settled with the outcome it has.
C19_FailureStep ==
    /\ \A i \in 1..Len(fetches) :
          (fetches[i].status = "pending" /\ fetches'[i].status = "failed") =>
              /\ Len(fetches') = Len(fetches)
              /\ \A j \in 1..Len(fetches) : j # i => fetches'[j] = fetches[j]
    /\ main = "settled" => (main' = "settled" /\ result' = result)

\* C19: when a fetch fails below a list of a node, no fetch is ever started for what the
\* node visits after that list (its later lists, its nested sub-spec, its own dataset)
\* nor for the own dataset of any node above; the fetches in flight are not aborted, and
\* the call settles once, rejected.
C19_FailureStopsLaterFetches ==
    []C19_NothingStartedAfterFailure /\ [][C19_FailureStep]_vars

C19_Witness ==
    /\ main = "settled"
    /\ result.status = "rejected"
    /\ Len(fetches) = 2
    /\ fetches[1].node = << <<"layer", 1>> >>
    /\ fetches[1].status = "failed"
    /\ fetches[2].node = << <<"layer", 2>> >>
    /\ fetches[2].status = "pending"
    /\ HasParseableUrl(input)

----------------------------------------------------------------------------
(* Properties of the data editor *)

IsPrefix(s, t) == Len(s) <= Len(t) /\ SubSeq(t, 1, Len(s)) = s

\* C10: every step keeps the previous edits as a prefix of the new edits (records are
\* only appended, never removed, reordered or changed), and once the table is loaded it
\* never changes.
C10_EditsOnlyAppended ==
    [][/\ IsPrefix(value.edits, value'.edits)
       /\ DOMAIN value' = DOMAIN value
       /\ loader.hasData => (loader'.hasData /\ loader'.data = loader.data)
       /\ tableProp' = tableProp]_vars

C10_Witness ==
    /\ View = "grid"
    /\ Len(value.edits) = MaxEdits
    /\ calls.onAddEdits >= 1
    /\ calls.onAddRows >= 1
    /\ Len(loader.data) = MaxRows

\* C11: the view is the error panel exactly when the loader reported an error (whether
\* or not data is there), the placeholder exactly when there is neither error nor data,
\* the grid exactly when there is data and no error; a load that ended without data is
\* shown as the error panel with a non-empty text; an inline array is shown as it is
\* without any call of vegaLoadData, a URL is loaded with exactly one call.
C11_OneOfThreeViews ==
    /\ View = "error" <=> loader.error # NoError
    /\ View = "loading" <=> (loader.error = NoError /\ ~loader.hasData)
    /\ View = "grid" <=> (loader.error = NoError /\ loader.hasData)
    /\ loader.pc # "done" => View = "loading"
    /\ (loader.pc = "done" /\ ~loader.hasData) => (View = "error" /\ ErrorText # "")
    /\ tableProp.array =>
          /\ remoteLoads = 0
          /\ loader.error = NoError
          /\ loader.hasData => loader.data = tableProp.rows
    /\ ~tableProp.array => remoteLoads = (IF loader.pc = "idle" THEN 0 ELSE 1)

C11_Witness ==
    /\ View = "error"
    /\ loader.error.message = ""
    /\ remoteLoads = 1
    /\ calls.onAddEdits + calls.onAddRows = 0

\* The row of the batch that the k-th entry of the whole batch belongs to.
RowOfEntry(rows, k) ==
    CHOOSE i \in 1..Len(rows) :
        EntriesBefore(rows, i) < k /\ k <= EntriesBefore(rows, i) + Len(rows[i])

\* The records a batch stands for on a table of n rows: one per entry, row by row and
\* entry by entry, every one with the position of its row in the batch added to n.
RecordsOf(rows, n) ==
    [k \in 1..EntriesBefore(rows, Len(rows) + 1) |->
        LET i == RowOfEntry(rows, k)
            entry == rows[i][k - EntriesBefore(rows, i)]
        IN [rowIdx |-> n + (i - 1), columnId |-> entry[1], value |-> entry[2]]]

\* The batches the grid can hand to onAddRows.
Batches == SeqsUpTo(AddableRows, MaxBatch)

\* For every length of the loaded table and every batch: what onAddRows builds, and the
\* records the batch stands for.
AddRowsCalls ==
    {[n |-> n, newEdits |-> NewEdits(rows, n, 1), records |-> RecordsOf(rows, n)] :
        n \in 0..MaxRows, rows \in Batches}

\* C16: a call of onAddRows with a batch of rows, on a loaded table of n rows, appends
\* to the edits one record per entry of every row, in the order of the rows and then of
\* the entries; the records of the row at position i (from 0) have rowIdx n + i and the
\* entry's columnId and value, and a row without entries adds no record.
C16_AddRowsAppendsRecords ==
    [][calls'.onAddRows # calls.onAddRows =>
          LET n == Len(loader.data)
              added == SubSeq(value'.edits, Len(value.edits) + 1, Len(value'.edits))
          IN /\ IsPrefix(value.edits, value'.edits)
             /\ \E call \in AddRowsCalls : call.n = n /\ call.records = added
             /\ \A call \in AddRowsCalls :
                   (call.n = n /\ call.newEdits = added) => call.records = added]_vars

C16_Witness ==
    /\ View = "grid"
    /\ calls.onAddRows = 1
    /\ Len(loader.data) = MaxRows
    /\ DOMAIN rowLog = {MaxRows + 1}
    /\ Len(value.edits) >= 2
    /\ value.edits[Len(value.edits)] = [rowIdx |-> MaxRows + 1, columnId |-> "a", value |-> 2]
    /\ value.edits[Len(value.edits) - 1] = [rowIdx |-> MaxRows + 1, columnId |-> "b", value |-> 1]

\* C17: the rows that the calls of onAddRows add each get a rowIdx of their own, which
\* no row added before has and which is at least the length of the loaded table.
C17_AddedRowsHaveOwnRowIdx ==
    \A idx \in DOMAIN rowLog : rowLog[idx] = 1 /\ idx >= Len(loader.data)

----------------------------------------------------------------------------
(* Properties of getCopyValue *)

RECURSIVE Literal(_), Joined(_, _)

\* The texts of a list of parts, with commas between them.
Joined(parts, i) ==
    IF i > Len(parts) THEN <<>>
    ELSE (IF i > 1 THEN <<",">> ELSE <<>>) \o parts[i] \o Joined(parts, i + 1)

\* The Python literal of a value: True, False and None for booleans, null and undefined;
\* a MIME-prefixed string quoted without its prefix; a float-tagged string bare, a
\* set-tagged one in braces, a tuple-tagged one in parentheses; any other string quoted
\* as it is; arrays and objects around the literals of their parts, keys quoted.
Literal(v) ==
    IF v \in {Null, Undefined} THEN <<"None">>
    ELSE IF v.t = "boolean" THEN (IF v.b THEN <<"True">> ELSE <<"False">>)
    ELSE IF v.t = "number" THEN <<ToString(v.n)>>
    ELSE IF v.t = "array" THEN
        <<"[">> \o Joined([i \in 1..Len(v.items) |-> Literal(v.items[i])], 1) \o <<"]">>
    ELSE IF v.t = "object" THEN
        <<"{">> \o Joined([i \in 1..Len(v.entries) |->
                              <<"\"", v.entries[i].key, "\"", ":">>
                              \o Literal(v.entries[i].value)], 1) \o <<"}">>
    ELSE LET s == v.s
             quoted(x) == <<"\"">> \o [i \in 1..Len(x) |->
                                          IF x[i] = "\n" THEN "\\n" ELSE x[i]] \o <<"\"">>
         IN IF Len(s) < 2 \/ s[2] # ":" THEN quoted(s)
            ELSE CASE s[1] = "text/plain" -> quoted(SubSeq(s, 3, Len(s)))
                   [] s[1] = "text/plain+float" -> SubSeq(s, 3, Len(s))
                   [] s[1] = "text/plain+set" -> <<"{">> \o SubSeq(s, 4, Len(s) - 1) \o <<"}">>
                   [] s[1] = "text/plain+tuple" -> <<"(">> \o SubSeq(s, 4, Len(s) - 1) \o <<")">>
                   [] OTHER -> quoted(s)

\* C12: the text getCopyValue returns is the Python literal of the value at every
\* nesting depth; in particular the strings "true", "none" and "null" stay quoted
\* strings, and the tagged strings of the tests give the texts the tests expect.
C12_CopyLiterals ==
    copyPc = "done" =>
        /\ copyText = Literal(copyArg)
        /\ copyArg = Str(<<"true">>) => copyText = <<"\"", "true", "\"">>
        /\ copyArg = Str(<<"none">>) => copyText = <<"\"", "none", "\"">>
        /\ copyArg = Str(<<"null">>) => copyText = <<"\"", "null", "\"">>
        /\ copyArg = Str(<<"text/plain+float", ":", "1.23">>) => copyText = <<"1.23">>
        /\ copyArg = Str(<<"text/plain+set", ":", "[", "1,2,3", "]">>)
              => copyText = <<"{", "1,2,3", "}">>
        /\ copyArg = Str(<<"text/plain+tuple", ":", "[", "1,2,3", "]">>)
              => copyText = <<"(", "1,2,3", ")">>
        /\ copyArg = Arr(<<Num(42), Str(<<"true">>), Bool(TRUE), Null>>)
              => copyText = <<"[", "42", ",", "\"", "true", "\"", ",", "True", ",", "None", "]">>

C12_Witness ==
    /\ copyPc = "done"
    /\ copyArg = Obj(<<Entry("key1", Arr(<<Num(42), Str(<<"text/plain+set", ":", "[", "1,2,3", "]">>),
                                           Bool(TRUE), Null>>)),
                       Entry("true", Str(<<"true">>)),
                       Entry("null", Undefined)>>)
    /\ copyText = <<"{", "\"", "key1", "\"", ":",
                    "[", "42", ",", "{", "1,2,3", "}", ",", "True", ",", "None", "]", ",",
                    "\"", "true", "\"", ":", "\"", "true", "\"", ",",
                    "\"", "null", "\"", ":", "None", "}">>

====
